---- MODULE Spec2Model ----
(***************************************************************************)
(* A model of openvdb/points/PointDelete.h: deleteFromGroups,              *)
(* deleteFromGroup and point_delete_internal::DeleteGroupsOp.              *)
(*                                                                         *)
(* A point tree is a sequence of leaves.  A leaf holds an attribute set    *)
(* (one array per column: the value column "P" and one membership column   *)
(* per declared group) and an offset table with one cumulative end offset  *)
(* per voxel.  Point indices are 0-based as in the source; arrays are TLA+ *)
(* sequences, read with Get(array, index).                                 *)
(***************************************************************************)
EXTENDS Integers, Sequences, FiniteSets, TLC

\* ---------------------------------------------------------------- bounds

\* Leaves of the largest tree.
NumLeaves == 2
\* Points of the largest tree, over all its leaves.
MaxPoints == 3
\* Voxels per leaf (LeafNodeT::NUM_VALUES, scaled down).
NUM_VALUES == 2
\* Length of the longest list of group names passed in.
MaxNames == 2

\* The group names a caller may pass and a descriptor may declare.
GroupNames == {"A", "B"}
\* The one non-group attribute; its value identifies a point.
ValueColumn == "P"

\* ------------------------------------------------------ pure collaborators

Get(array, i) == array[i + 1]

Last(s) == s[Len(s)]

\* Sequences over S of length 0..n.
SeqUpTo(S, n) == UNION {[1..k -> S] : k \in 0..n}

\* AttributeSet::Descriptor::hasGroup on the group map d.
hasGroup(d, name) == name \in d

\* Number of elements each array of an attribute set holds (0: no arrays).
ArraySize(attributeSet) ==
    IF DOMAIN attributeSet = {} THEN 0
    ELSE Len(attributeSet[CHOOSE c \in DOMAIN attributeSet : TRUE])

\* The index range [start, end) of voxel v in an offset table.
VoxelBegin(offsets, v) == IF v = 1 THEN 0 ELSE offsets[v - 1]

VoxelEnd(offsets, v) == offsets[v]

\* MultiGroupFilter(include, exclude).
MultiGroupFilter(include, exclude) == [include |-> include, exclude |-> exclude]

\* Membership of point index i in group name, read from the leaf's arrays.
InGroup(attributeSet, name, i) ==
    /\ name \in DOMAIN attributeSet
    /\ i + 1 \in DOMAIN attributeSet[name]
    /\ Get(attributeSet[name], i) = 1

\* MultiGroupFilter::valid: in some included group (or none is named) and
\* in no excluded group.
FilterValid(filter, attributeSet, i) ==
    /\ \/ filter.include = <<>>
       \/ \E k \in DOMAIN filter.include : InGroup(attributeSet, filter.include[k], i)
    /\ \A k \in DOMAIN filter.exclude : ~InGroup(attributeSet, filter.exclude[k], i)

\* The indices from..to-1 in ascending order.
RECURSIVE IndexRange(_, _)
IndexRange(from, to) ==
    IF from >= to THEN <<>> ELSE <<from>> \o IndexRange(from + 1, to)

SelectValid(filter, attributeSet, indices) ==
    SelectSeq(indices, LAMBDA i : FilterValid(filter, attributeSet, i))

\* leaf->beginIndexVoxel(voxel, filter): the voxel's indices that pass.
IndexVoxel(leaf, v, filter) ==
    SelectValid(filter, leaf.attributeSet,
                IndexRange(VoxelBegin(leaf.offsets, v), VoxelEnd(leaf.offsets, v)))

\* leaf->beginIndexAll(filter): all voxels in order, each voxel ascending.
RECURSIVE IndexAllFrom(_, _, _)
IndexAllFrom(leaf, v, filter) ==
    IF v > Len(leaf.offsets) THEN <<>>
    ELSE IndexVoxel(leaf, v, filter) \o IndexAllFrom(leaf, v + 1, filter)

IndexAll(leaf, filter) == IndexAllFrom(leaf, 1, filter)

NoFilter == MultiGroupFilter(<<>>, <<>>)

iterCount(iter) == Len(iter)

\* AttributeSet(existing, n): the same columns, n default-valued elements.
NewAttributeSet(existing, n) ==
    [c \in DOMAIN existing |-> [k \in 1..n |-> 0]]

\* leaf->clearAttributes(): the store is discarded and the leaf is empty.
clearAttributes(leaf) ==
    [attributeSet |-> <<>>, offsets |-> [v \in 1..Len(leaf.offsets) |-> 0]]

\* dropGroups(tree, names): each name leaves the group map, in list order.
RECURSIVE dropGroups(_, _)
dropGroups(d, names) ==
    IF names = <<>> THEN d
    ELSE dropGroups(d \ {Head(names)}, Tail(names))

\* ------------------------------------------- DeleteGroupsOp, as a function

\* Mutant: the include and exclude arguments the wrong way round.
SurvivorFilterSwapped(mGroupNames, mInvert) ==
    IF mInvert THEN MultiGroupFilter(<<>>, mGroupNames)
    ELSE MultiGroupFilter(mGroupNames, <<>>)

\* Mutant: mInvert is not looked at.
SurvivorFilterNoInvert(mGroupNames, mInvert) ==
    MultiGroupFilter(<<>>, mGroupNames)

\* DeleteGroupsOp::operator(), the filter choice: the filter selects the
\* points that are kept.
SurvivorFilter(mGroupNames, mInvert) ==
    IF mInvert THEN MultiGroupFilter(mGroupNames, <<>>)
    ELSE MultiGroupFilter(<<>>, mGroupNames)

\* The kept indices of voxels 1..v.
RECURSIVE IndexUpTo(_, _, _)
IndexUpTo(leaf, v, filter) ==
    IF v = 0 THEN <<>>
    ELSE IndexUpTo(leaf, v - 1, filter) \o IndexVoxel(leaf, v, filter)

\* The body of the leaf loop run to its end on one leaf, as a function.
DeleteGroupsOpLeaf(leaf, mGroupNames, mInvert) ==
    LET filter == SurvivorFilter(mGroupNames, mInvert)
        size == iterCount(IndexAll(leaf, NoFilter))
        keep == IndexAll(leaf, filter)
        newSize == iterCount(keep)
        existing == leaf.attributeSet
    IN  IF size = 0 THEN leaf
        ELSE IF newSize = 0 THEN clearAttributes(leaf)
        ELSE [attributeSet |->
                [c \in DOMAIN existing |->
                    [k \in 1..newSize |-> Get(existing[c], keep[k])]],
              offsets |->
                [v \in 1..NUM_VALUES |-> Len(IndexUpTo(leaf, v, filter))]]

\* Mutant: no hasGroup test, every requested name is taken.
AvailableGroupsUnchecked(d, names) == names

\* Mutant: the loop is left at the first name found.
AvailableGroupsFirstOnly(d, names) ==
    LET found == SelectSeq(names, LAMBDA name : hasGroup(d, name))
    IN  IF found = <<>> THEN <<>> ELSE <<Head(found)>>

\* The names of a list that the group map holds, in list order.
AvailableGroups(d, names) ==
    SelectSeq(names, LAMBDA name : hasGroup(d, name))

\* deleteFromGroups from its early returns on, run to its end with the
\* leaves taken one after another and no body failing, as a function of the
\* tree, the group map and the names found in it.
DeleteFromGroupsResult(t, d, available, inv) ==
    IF t = <<>> \/ available = <<>> THEN [tree |-> t, descriptor |-> d]
    ELSE [tree |-> [l \in DOMAIN t |-> DeleteGroupsOpLeaf(t[l], available, inv)],
          descriptor |-> IF inv THEN d ELSE dropGroups(d, available)]

\* ------------------------------------------------------------------ state

VARIABLES
    tree,             \* the point tree: a sequence of leaves
    descriptor,       \* the group map shared by all leaves: the declared names
    call,             \* the caller's call: api, group or groups, invert
    groups,           \* deleteFromGroups' parameter groups
    invert,           \* deleteFromGroups' parameter invert
    pc,               \* where the calling thread is
    availableGroups,  \* deleteFromGroups' local availableGroups
    tasks,            \* the parallel_for bodies, keyed by first leaf of range
    tree0,            \* the tree when the call was made
    descriptor0       \* the group map when the call was made

vars == <<tree, descriptor, call, groups, invert, pc, availableGroups, tasks,
          tree0, descriptor0>>

\* ------------------------------------------------------------------- Init

PointId(k) == k

\* The offset tables of a leaf with at most n points.
OffsetTables(n) ==
    {o \in [1..NUM_VALUES -> 0..n] :
        \A v \in 1..(NUM_VALUES - 1) : o[v] <= o[v + 1]}

\* The leaves with at most n points a tree with group map d can hold: every
\* column as long as the offset table's last entry says, the value column
\* numbering the points.
LeafContents(d, n) ==
    UNION {
        {[attributeSet |->
            [c \in {ValueColumn} \cup d |->
                IF c = ValueColumn THEN [k \in 1..Last(o) |-> PointId(k)]
                ELSE m[c]],
          offsets |-> o] : m \in [d -> [1..Last(o) -> {0, 1}]]}
        : o \in OffsetTables(n)}

\* The trees of k leaves with group map d and at most n points in all.
RECURSIVE TreesOf(_, _, _)
TreesOf(d, k, n) ==
    IF k = 0 THEN {<<>>}
    ELSE UNION {
            {<<leaf>> \o rest : rest \in TreesOf(d, k - 1, n - Last(leaf.offsets))}
            : leaf \in LeafContents(d, n)}

Trees(d) == UNION {TreesOf(d, k, MaxPoints) : k \in 0..NumLeaves}

Calls ==
    {[api |-> "deleteFromGroups", group |-> "", groups |-> g, invert |-> b] :
        g \in SeqUpTo(GroupNames, MaxNames), b \in BOOLEAN}
    \cup
    {[api |-> "deleteFromGroup", group |-> g, groups |-> <<>>, invert |-> b] :
        g \in GroupNames, b \in BOOLEAN}

Init ==
    /\ descriptor \in SUBSET GroupNames
    /\ tree \in Trees(descriptor)
    /\ tree = <<>> => descriptor = {}
    /\ call \in Calls
    /\ groups = call.groups
    /\ invert = (call.api = "deleteFromGroups" /\ call.invert)
    /\ pc = call.api
    /\ availableGroups = <<>>
    /\ tasks = <<>>
    /\ tree0 = tree
    /\ descriptor0 = descriptor

\* ---------------------------------------------------- the calling thread

\* Mutant: invert is left at its default instead of being passed on.
deleteFromGroupNoInvert ==
    /\ pc = "deleteFromGroup"
    /\ groups' = <<call.group>>
    /\ invert' = FALSE
    /\ pc' = "deleteFromGroups"
    /\ UNCHANGED <<tree, descriptor, call, availableGroups, tasks, tree0, descriptor0>>

\* deleteFromGroup: a one-element list, invert passed on.
deleteFromGroup ==
    /\ pc = "deleteFromGroup"
    /\ groups' = <<call.group>>
    /\ invert' = call.invert
    /\ pc' = "deleteFromGroups"
    /\ UNCHANGED <<tree, descriptor, call, availableGroups, tasks, tree0, descriptor0>>

\* deleteFromGroups up to the parallel_for: no leaf, or no requested group
\* in the first leaf's descriptor, returns.
deleteFromGroups ==
    /\ pc = "deleteFromGroups"
    /\ IF tree = <<>>
       THEN /\ pc' = "done"
            /\ UNCHANGED availableGroups
       ELSE /\ availableGroups' = AvailableGroups(descriptor, groups)
            /\ pc' = IF availableGroups' = <<>> THEN "done" ELSE "parallel_for"
    /\ UNCHANGED <<tree, descriptor, call, groups, invert, tasks, tree0, descriptor0>>

NoLocals ==
    [newSize |-> 0, newAttributeSet |-> <<>>, attributeIndex |-> 0,
     endOffsets |-> <<>>, voxel |-> 0, iter |-> 0]

\* The ranges leafManager.leafRange() can be split into: contiguous and
\* covering, named by the set of their first leaves.
Splits(n) == {s \in SUBSET (1..n) : 1 \in s}

\* Mutant: every range runs to the last leaf, so ranges overlap.
RangeEndWhole(s, lo, n) == n

\* The last leaf of the range that starts at lo.
RangeEnd(s, lo, n) ==
    IF \E x \in s : x > lo
    THEN (CHOOSE x \in s : x > lo /\ \A y \in s : y > lo => x <= y) - 1
    ELSE n

\* tbb::parallel_for(leafManager.leafRange(), deleteOp): one body per range.
parallel_for ==
    /\ pc = "parallel_for"
    /\ \E s \in Splits(Len(tree)) :
        tasks' = [lo \in s |->
                    [lo |-> lo, hi |-> RangeEnd(s, lo, Len(tree)), leaf |-> lo,
                     pc |-> "ready", local |-> NoLocals]]
    /\ pc' = "running"
    /\ UNCHANGED <<tree, descriptor, call, groups, invert, availableGroups,
                   tree0, descriptor0>>

Terminal == {"finished", "failed", "cancelled"}

\* Mutant: the calling thread goes on as soon as one body has ended.
JoinedAny == \E t \in DOMAIN tasks : tasks[t].pc \in Terminal

\* Mutant: the calling thread waits for every body to reach its end; one
\* that threw or was cancelled never does.
JoinedAllFinished == \A t \in DOMAIN tasks : tasks[t].pc = "finished"

\* parallel_for returns when every body has ended.
Joined == \A t \in DOMAIN tasks : tasks[t].pc \in Terminal

\* Mutant: the test of invert negated.
ShouldDropInverted(inv) == inv

\* if (!invert): whether the groups are dropped after the parallel_for.
ShouldDrop(inv) == ~inv

\* Mutant: what a body threw is swallowed and the call goes on.
joinSwallowing ==
    /\ pc = "running"
    /\ Joined
    /\ pc' = IF ShouldDrop(invert) THEN "dropGroups" ELSE "done"
    /\ UNCHANGED <<tree, descriptor, call, groups, invert, availableGroups, tasks,
                   tree0, descriptor0>>

\* parallel_for returns, or rethrows what a body threw; then the groups are
\* dropped unless invert.
join ==
    /\ pc = "running"
    /\ Joined
    /\ pc' = IF \E t \in DOMAIN tasks : tasks[t].pc = "failed" THEN "threw"
             ELSE IF ShouldDrop(invert) THEN "dropGroups"
             ELSE "done"
    /\ UNCHANGED <<tree, descriptor, call, groups, invert, availableGroups, tasks,
                   tree0, descriptor0>>

DropGroups ==
    /\ pc = "dropGroups"
    /\ descriptor' = dropGroups(descriptor, availableGroups)
    /\ pc' = "done"
    /\ UNCHANGED <<tree, call, groups, invert, availableGroups, tasks,
                   tree0, descriptor0>>

\* ------------------------------------------------- DeleteGroupsOp's bodies

\* The filter a body builds from mGroupNames (availableGroups) and mInvert.
TaskFilter == SurvivorFilter(availableGroups, invert)

Running(t) == pc = "running" /\ t \in DOMAIN tasks

\* ++leaf: the next leaf of the range, or the end of the body.
NextLeaf(task) ==
    [task EXCEPT !.leaf = @ + 1,
                 !.pc = IF task.leaf + 1 > task.hi THEN "finished" ELSE "leaf",
                 !.local = NoLocals]

\* A body starts: the filter is built, the loop is at the range's first leaf.
Start(t) ==
    /\ Running(t)
    /\ tasks[t].pc = "ready"
    /\ tasks' = [tasks EXCEPT ![t].pc = "leaf"]
    /\ UNCHANGED <<tree, descriptor, call, groups, invert, pc, availableGroups,
                   tree0, descriptor0>>

\* The task group is cancelled once a body has thrown: a body that has not
\* started never runs.
Cancel(t) ==
    /\ Running(t)
    /\ tasks[t].pc = "ready"
    /\ \E u \in DOMAIN tasks : tasks[u].pc = "failed"
    /\ tasks' = [tasks EXCEPT ![t].pc = "cancelled"]
    /\ UNCHANGED <<tree, descriptor, call, groups, invert, pc, availableGroups,
                   tree0, descriptor0>>

\* Mutant: no special case for a leaf that keeps no point.
AfterCountNoClear(newSize) == "alloc"

\* if (newSize == 0): clear the leaf, else build a new attribute set.
AfterCount(newSize) == IF newSize = 0 THEN "clear" ELSE "alloc"

\* Mutant: an empty leaf is not skipped.
LeafCountNoSkip(t) ==
    LET task == tasks[t]
        leaf == tree[task.leaf]
        newSize == iterCount(IndexAll(leaf, TaskFilter))
    IN  /\ Running(t)
        /\ task.pc = "leaf"
        /\ tasks' = [tasks EXCEPT ![t] =
                        [task EXCEPT !.pc = AfterCount(newSize),
                                     !.local.newSize = newSize]]
        /\ UNCHANGED <<tree, descriptor, call, groups, invert, pc, availableGroups,
                       tree0, descriptor0>>

\* Mutant: newSize counts the leaf's points without the filter.
LeafCountUnfiltered(t) ==
    LET task == tasks[t]
        leaf == tree[task.leaf]
        size == iterCount(IndexAll(leaf, NoFilter))
    IN  /\ Running(t)
        /\ task.pc = "leaf"
        /\ tasks' = [tasks EXCEPT ![t] =
                        IF size = 0 THEN NextLeaf(task)
                        ELSE [task EXCEPT !.pc = AfterCount(size),
                                          !.local.newSize = size]]
        /\ UNCHANGED <<tree, descriptor, call, groups, invert, pc, availableGroups,
                       tree0, descriptor0>>

\* The head of the leaf loop: size, then newSize.  An empty leaf is skipped.
LeafCount(t) ==
    LET task == tasks[t]
        leaf == tree[task.leaf]
        size == iterCount(IndexAll(leaf, NoFilter))
        newSize == iterCount(IndexAll(leaf, TaskFilter))
    IN  /\ Running(t)
        /\ task.pc = "leaf"
        /\ tasks' = [tasks EXCEPT ![t] =
                        IF size = 0 THEN NextLeaf(task)
                        ELSE [task EXCEPT !.pc = AfterCount(newSize),
                                          !.local.newSize = newSize]]
        /\ UNCHANGED <<tree, descriptor, call, groups, invert, pc, availableGroups,
                       tree0, descriptor0>>

\* newSize == 0: leaf->clearAttributes(); continue.
Clear(t) ==
    LET task == tasks[t]
    IN  /\ Running(t)
        /\ task.pc = "clear"
        /\ tree' = [tree EXCEPT ![task.leaf] = clearAttributes(@)]
        /\ tasks' = [tasks EXCEPT ![t] = NextLeaf(task)]
        /\ UNCHANGED <<descriptor, call, groups, invert, pc, availableGroups,
                       tree0, descriptor0>>

\* Mutant: the new attribute set is put in the leaf as soon as it is built,
\* before a value is copied into it.
AllocInstallFirst(t) ==
    LET task == tasks[t]
        newAttributeSet == NewAttributeSet(tree[task.leaf].attributeSet,
                                           task.local.newSize)
    IN  /\ Running(t)
        /\ task.pc = "alloc"
        /\ tree' = [tree EXCEPT ![task.leaf].attributeSet = newAttributeSet]
        /\ tasks' = [tasks EXCEPT ![t] =
                        [task EXCEPT !.pc = "copy",
                                     !.local.newAttributeSet = newAttributeSet,
                                     !.local.attributeIndex = 0,
                                     !.local.endOffsets = <<>>,
                                     !.local.voxel = 1,
                                     !.local.iter = 1]]
        /\ UNCHANGED <<descriptor, call, groups, invert, pc, availableGroups,
                       tree0, descriptor0>>

\* new AttributeSet(existingAttributeSet, newSize); attributeIndex = 0;
\* endOffsets empty; the voxel loop is at the first voxel.
Alloc(t) ==
    LET task == tasks[t]
    IN  /\ Running(t)
        /\ task.pc = "alloc"
        /\ tasks' = [tasks EXCEPT ![t] =
                        [task EXCEPT !.pc = "copy",
                                     !.local.newAttributeSet =
                                        NewAttributeSet(tree[task.leaf].attributeSet,
                                                        task.local.newSize),
                                     !.local.attributeIndex = 0,
                                     !.local.endOffsets = <<>>,
                                     !.local.voxel = 1,
                                     !.local.iter = 1]]
        /\ UNCHANGED <<tree, descriptor, call, groups, invert, pc, availableGroups,
                       tree0, descriptor0>>

\* new AttributeSet throws: the body ends with the exception.
AllocFail(t) ==
    LET task == tasks[t]
    IN  /\ Running(t)
        /\ task.pc = "alloc"
        /\ tasks' = [tasks EXCEPT ![t] = [task EXCEPT !.pc = "failed", !.local = NoLocals]]
        /\ UNCHANGED <<tree, descriptor, call, groups, invert, pc, availableGroups,
                       tree0, descriptor0>>

\* AttributeArray::set(n, source, sourceIndex).
ArraySet(array, n, source, sourceIndex) ==
    [array EXCEPT ![n + 1] = Get(source, sourceIndex)]

\* Mutant: the new arrays are filled from the back.
CopyValuesFromBack(newAttributeSet, existing, attributeIndex, index) ==
    [c \in DOMAIN newAttributeSet |->
        ArraySet(newAttributeSet[c], Len(newAttributeSet[c]) - 1 - attributeIndex,
                 existing[c], index)]

\* Mutant: only the value array is copied; the group arrays keep their
\* default.
CopyValuesValueOnly(newAttributeSet, existing, attributeIndex, index) ==
    [c \in DOMAIN newAttributeSet |->
        IF c = ValueColumn
        THEN ArraySet(newAttributeSet[c], attributeIndex, existing[c], index)
        ELSE newAttributeSet[c]]

\* for (i < attributeSetSize) newAttributeArrays[i]->set(attributeIndex,
\* *existingAttributeArrays[i], *iter).
CopyValues(newAttributeSet, existing, attributeIndex, index) ==
    [c \in DOMAIN newAttributeSet |->
        ArraySet(newAttributeSet[c], attributeIndex, existing[c], index)]

\* Mutant: the voxel's own point count is pushed, not the running total.
PushEndOffsetPerVoxel(endOffsets, attributeIndex) ==
    Append(endOffsets,
           attributeIndex - (IF endOffsets = <<>> THEN 0 ELSE Last(endOffsets)))

\* endOffsets.push_back(ValueType(attributeIndex)).
PushEndOffset(endOffsets, attributeIndex) == Append(endOffsets, attributeIndex)

\* Mutant: the source index is the destination cursor, not *iter.
CopyPointFromCursor(t) ==
    LET task == tasks[t]
        leaf == tree[task.leaf]
        kept == IndexVoxel(leaf, task.local.voxel, TaskFilter)
    IN  /\ Running(t)
        /\ task.pc = "copy"
        /\ task.local.iter <= Len(kept)
        /\ tasks' = [tasks EXCEPT ![t] =
                        [task EXCEPT
                            !.local.newAttributeSet =
                                CopyValues(@, leaf.attributeSet,
                                           task.local.attributeIndex,
                                           task.local.attributeIndex),
                            !.local.attributeIndex = @ + 1,
                            !.local.iter = @ + 1]]
        /\ UNCHANGED <<tree, descriptor, call, groups, invert, pc, availableGroups,
                       tree0, descriptor0>>

\* The inner loops' body: every array of the new set takes the value the
\* existing array holds at *iter; ++attributeIndex; ++iter.
CopyPoint(t) ==
    LET task == tasks[t]
        leaf == tree[task.leaf]
        kept == IndexVoxel(leaf, task.local.voxel, TaskFilter)
    IN  /\ Running(t)
        /\ task.pc = "copy"
        /\ task.local.iter <= Len(kept)
        /\ tasks' = [tasks EXCEPT ![t] =
                        [task EXCEPT
                            !.local.newAttributeSet =
                                CopyValues(@, leaf.attributeSet,
                                           task.local.attributeIndex,
                                           kept[task.local.iter]),
                            !.local.attributeIndex = @ + 1,
                            !.local.iter = @ + 1]]
        /\ UNCHANGED <<tree, descriptor, call, groups, invert, pc, availableGroups,
                       tree0, descriptor0>>

\* The voxel's iterator is at its end: endOffsets.push_back(attributeIndex);
\* ++voxel.  After the last voxel the loop is left.
VoxelDone(t) ==
    LET task == tasks[t]
        leaf == tree[task.leaf]
        kept == IndexVoxel(leaf, task.local.voxel, TaskFilter)
    IN  /\ Running(t)
        /\ task.pc = "copy"
        /\ task.local.iter > Len(kept)
        /\ tasks' = [tasks EXCEPT ![t] =
                        [task EXCEPT
                            !.local.endOffsets = PushEndOffset(@, task.local.attributeIndex),
                            !.local.voxel = @ + 1,
                            !.local.iter = 1,
                            !.pc = IF task.local.voxel + 1 > NUM_VALUES
                                   THEN "replace" ELSE "copy"]]
        /\ UNCHANGED <<tree, descriptor, call, groups, invert, pc, availableGroups,
                       tree0, descriptor0>>

\* leaf->replaceAttributeSet(newAttributeSet).
Replace(t) ==
    LET task == tasks[t]
    IN  /\ Running(t)
        /\ task.pc = "replace"
        /\ tree' = [tree EXCEPT ![task.leaf].attributeSet = task.local.newAttributeSet]
        /\ tasks' = [tasks EXCEPT ![t].pc = "setOffsets"]
        /\ UNCHANGED <<descriptor, call, groups, invert, pc, availableGroups,
                       tree0, descriptor0>>

\* Mutant: the leaf keeps the offset table it had; ++leaf.
SetOffsetsSkipped(t) ==
    LET task == tasks[t]
    IN  /\ Running(t)
        /\ task.pc = "setOffsets"
        /\ tasks' = [tasks EXCEPT ![t] = NextLeaf(task)]
        /\ UNCHANGED <<tree, descriptor, call, groups, invert, pc, availableGroups,
                       tree0, descriptor0>>

\* leaf->setOffsets(endOffsets); ++leaf.
SetOffsets(t) ==
    LET task == tasks[t]
    IN  /\ Running(t)
        /\ task.pc = "setOffsets"
        /\ tree' = [tree EXCEPT ![task.leaf].offsets = task.local.endOffsets]
        /\ tasks' = [tasks EXCEPT ![t] = NextLeaf(task)]
        /\ UNCHANGED <<descriptor, call, groups, invert, pc, availableGroups,
                       tree0, descriptor0>>

\* ------------------------------------------------------------------ Next

Next ==
    \/ deleteFromGroup
    \/ deleteFromGroups
    \/ parallel_for
    \/ join
    \/ DropGroups
    \/ \E t \in 1..NumLeaves : Start(t)
    \/ \E t \in 1..NumLeaves : Cancel(t)
    \/ \E t \in 1..NumLeaves : LeafCount(t)
    \/ \E t \in 1..NumLeaves : Clear(t)
    \/ \E t \in 1..NumLeaves : Alloc(t)
    \/ \E t \in 1..NumLeaves : AllocFail(t)
    \/ \E t \in 1..NumLeaves : CopyPoint(t)
    \/ \E t \in 1..NumLeaves : VoxelDone(t)
    \/ \E t \in 1..NumLeaves : Replace(t)
    \/ \E t \in 1..NumLeaves : SetOffsets(t)

Spec == Init /\ [][Next]_vars

\* A step of the calling thread.
CallerStep ==
    \/ deleteFromGroup
    \/ deleteFromGroups
    \/ parallel_for
    \/ join
    \/ DropGroups

\* A step of body t.
TaskStep(t) ==
    \/ Start(t)
    \/ Cancel(t)
    \/ LeafCount(t)
    \/ Clear(t)
    \/ Alloc(t)
    \/ AllocFail(t)
    \/ CopyPoint(t)
    \/ VoxelDone(t)
    \/ Replace(t)
    \/ SetOffsets(t)

\* The scheduler is fair: the calling thread, and every body tbb has spawned,
\* takes a step if it can from some time on.
FairSpec ==
    /\ Spec
    /\ WF_vars(CallerStep)
    /\ \A t \in 1..NumLeaves : WF_vars(TaskStep(t))

\* The caller, a call having returned, calls deleteFromGroups once more on
\* the tree as it is now, with the same list and either value of invert.
\* call.after is the first call's invert; tree0 and descriptor0 are from now
\* on the tree and group map the second call was made on.
SecondCall ==
    /\ pc = "done"
    /\ "after" \notin DOMAIN call
    /\ \E inv \in BOOLEAN :
        /\ call' = [api |-> "deleteFromGroups", group |-> "", groups |-> groups,
                    invert |-> inv, after |-> invert]
        /\ invert' = inv
    /\ pc' = "deleteFromGroups"
    /\ availableGroups' = <<>>
    /\ tasks' = <<>>
    /\ tree0' = tree
    /\ descriptor0' = descriptor
    /\ UNCHANGED <<tree, descriptor, groups>>

NextAgain == Next \/ SecondCall

SpecAgain == Init /\ [][NextAgain]_vars

\* ------------------------------------------------------------- properties

Range(s) == {s[k] : k \in DOMAIN s}

\* The points a leaf holds, by the value that identifies each, in index order.
Ids(leaf) ==
    IF ValueColumn \in DOMAIN leaf.attributeSet
    THEN leaf.attributeSet[ValueColumn] ELSE <<>>

\* The requested names that the group map held when the call was made.
Requested == {groups[k] : k \in DOMAIN groups} \cap descriptor0

\* The point indices leaf l held when the call was made.
Indices0(l) == 0..(Len(Ids(tree0[l])) - 1)

\* Point i of leaf l was, when the call was made, in a requested group.
MemberOfRequested(l, i) ==
    \E g \in Requested : Get(tree0[l].attributeSet[g], i) = 1

IdsOf(l, indices) == {Get(Ids(tree0[l]), i) : i \in indices}

\* C1: after deleteFromGroups(tree, groups, invert = false) has returned,
\* every leaf holds exactly the points it held before that were in none of
\* the requested groups the descriptor had, each once, and no other point.
C1_Completeness ==
    (pc = "done" /\ ~invert) =>
        /\ DOMAIN tree = DOMAIN tree0
        /\ \A l \in DOMAIN tree0 :
            LET kept == {i \in Indices0(l) : ~MemberOfRequested(l, i)}
            IN  /\ Range(Ids(tree[l])) = IdsOf(l, kept)
                /\ Len(Ids(tree[l])) = Cardinality(kept)

\* A non-inverted call with an unknown name in its list has returned and a
\* leaf has lost some of its points and kept others.
C1_Witness ==
    /\ pc = "done" /\ ~invert
    /\ \E k \in DOMAIN groups : groups[k] \notin descriptor0
    /\ \E l \in DOMAIN tree0 :
        /\ 0 < Len(Ids(tree[l]))
        /\ Len(Ids(tree[l])) < Len(Ids(tree0[l]))

\* C2: with at least one requested group in the descriptor, an inverted call
\* keeps exactly the points that are in some requested group and a
\* non-inverted call exactly the others; the points a call keeps and the
\* points the call with the other value of invert keeps (DeleteGroupsOpLeaf
\* on the same leaf) are disjoint and together are the leaf's points.
C2_InversionComplement ==
    (pc = "done" /\ Requested # {}) =>
        \A l \in DOMAIN tree0 :
            LET inSome == {i \in Indices0(l) : MemberOfRequested(l, i)}
                mine == Range(Ids(tree[l]))
                other == Range(Ids(DeleteGroupsOpLeaf(tree0[l], availableGroups,
                                                      ~invert)))
            IN  /\ invert => mine = IdsOf(l, inSome)
                /\ ~invert => mine = IdsOf(l, Indices0(l) \ inSome)
                /\ mine \cap other = {}
                /\ mine \cup other = Range(Ids(tree0[l]))

\* An inverted call has returned and a leaf has lost some points, kept others.
C2_Witness ==
    /\ pc = "done" /\ invert /\ Requested # {}
    /\ \E l \in DOMAIN tree0 :
        /\ 0 < Len(Ids(tree[l]))
        /\ Len(Ids(tree[l])) < Len(Ids(tree0[l]))

\* C3: a name that was not requested never leaves the group map and an
\* inverted call never changes the group map; when a non-inverted call has
\* returned the group map is the one before less the requested names, and
\* when an inverted call has returned it is the one before.
C3_GroupMetadata ==
    /\ descriptor0 \ Requested \subseteq descriptor
    /\ call.invert => descriptor = descriptor0
    /\ pc = "done" =>
        descriptor = IF invert THEN descriptor0 ELSE descriptor0 \ Requested

\* A non-inverted call has returned, having dropped a group and kept another.
C3_Witness ==
    /\ pc = "done" /\ ~invert
    /\ Requested # {}
    /\ descriptor0 \ Requested # {}
    /\ descriptor # descriptor0

\* C4: a call none of whose names is in the descriptor returns from
\* deleteFromGroups' early exit: no parallel_for body exists at any time,
\* the call does not throw, and tree and group map stay as they were.
C4_UnknownGroupsNoOp ==
    (pc # "deleteFromGroup" /\ \A k \in DOMAIN groups : groups[k] \notin descriptor0) =>
        /\ tasks = <<>>
        /\ pc \in {"deleteFromGroups", "done"}
        /\ tree = tree0
        /\ descriptor = descriptor0

\* A call naming only unknown groups, on a tree with points and with a group
\* declared, has returned.
C4_Witness ==
    /\ pc = "done"
    /\ groups # <<>>
    /\ \A k \in DOMAIN groups : groups[k] \notin descriptor0
    /\ descriptor0 # {}
    /\ \E l \in DOMAIN tree0 : Len(Ids(tree0[l])) > 0

\* The voxel an offset table puts point index i in (0: in none).
Cell(offsets, i) ==
    LET later == {v \in DOMAIN offsets : i < offsets[v]}
    IN  IF later = {} THEN 0
        ELSE CHOOSE v \in later : \A w \in later : v <= w

\* The index that the point identified by id had in leaf l before the call.
OrigIndex(l, id) == CHOOSE i \in Indices0(l) : Get(Ids(tree0[l]), i) = id

\* C5: when the call has returned, each leaf's points read in index order
\* are the leaf's points before the call with the deleted ones left out, in
\* the order they had, and each point is in the voxel it was in.
C5_OrderPreserved ==
    pc = "done" =>
        \A l \in DOMAIN tree0 :
            LET new == Ids(tree[l])
                old == Ids(tree0[l])
            IN  /\ new = SelectSeq(old, LAMBDA id : id \in Range(new))
                /\ \A j \in 0..(Len(new) - 1) :
                    Cell(tree[l].offsets, j)
                        = Cell(tree0[l].offsets, OrigIndex(l, Get(new, j)))

\* The call has returned and a leaf whose three points lay in two voxels
\* has kept two of them.
C5_Witness ==
    /\ pc = "done"
    /\ \E l \in DOMAIN tree0 :
        /\ Len(Ids(tree0[l])) = 3
        /\ Len(Ids(tree[l])) = 2
        /\ tree0[l].offsets[1] \in 1..2

FullyDeleted(l) ==
    /\ Requested # {}
    /\ Indices0(l) # {}
    /\ \A i \in Indices0(l) : MemberOfRequested(l, i) = ~invert

\* C7: for a leaf with points none of which is kept, no body ever builds a
\* new attribute set, copies or swaps (nor fails doing so), and when the
\* call has returned the leaf has no array left and holds no point.
C7_FullyDeletedLeaf ==
    \A l \in DOMAIN tree0 :
        FullyDeleted(l) =>
            /\ \A t \in DOMAIN tasks :
                tasks[t].leaf = l =>
                    tasks[t].pc \in {"ready", "leaf", "clear", "finished", "cancelled"}
            /\ pc = "done" =>
                /\ tree[l].attributeSet = <<>>
                /\ \A v \in DOMAIN tree[l].offsets : tree[l].offsets[v] = 0

\* The call has returned, one leaf lost all its points, another kept some.
C7_Witness ==
    /\ pc = "done"
    /\ \E l \in DOMAIN tree0 : FullyDeleted(l)
    /\ \E l \in DOMAIN tree0 : Len(Ids(tree[l])) > 0

\* A list without its repeated names: each name where it is first.
RECURSIVE Dedup(_)
Dedup(names) ==
    IF names = <<>> THEN <<>>
    ELSE <<Head(names)>> \o Dedup(SelectSeq(Tail(names), LAMBDA n : n # Head(names)))

\* The names of a list that the group map held when the call was made.
Existing(names) == SelectSeq(names, LAMBDA n : n \in descriptor0)

Final == [tree |-> tree, descriptor |-> descriptor]

TheName == IF call.api = "deleteFromGroup" THEN call.group ELSE call.groups[1]

\* C9: deleteFromGroup(tree, g, invert) and deleteFromGroups(tree, [g],
\* invert) leave the same tree and group map: when either has returned,
\* they are what DeleteFromGroupsResult makes of [g] and invert.
C9_SingleGroupEquivalent ==
    (pc = "done" /\ (call.api = "deleteFromGroup" \/ Len(call.groups) = 1)) =>
        Final = DeleteFromGroupsResult(tree0, descriptor0,
                                       Existing(<<TheName>>), call.invert)

\* An inverted deleteFromGroup has returned, having deleted points.
C9_Witness ==
    /\ pc = "done"
    /\ call.api = "deleteFromGroup" /\ call.invert
    /\ tree # tree0

\* C10: whenever the calling thread is about to drop the groups or the group
\* map differs from the one before the call, every parallel_for body has run
\* to its end; and the group map changes only in a step of the calling
\* thread's dropGroups, which changes neither a leaf nor a body.
C10_BarrierBeforeDrop ==
    /\ [](pc = "dropGroups" \/ descriptor # descriptor0 =>
            /\ tasks # <<>>
            /\ \A t \in DOMAIN tasks : tasks[t].pc = "finished")
    /\ [][descriptor' # descriptor =>
            pc = "dropGroups" /\ pc' = "done" /\ tasks' = tasks /\ tree' = tree]_vars

\* The calling thread is about to drop the groups after two bodies have run.
C10_Witness ==
    /\ pc = "dropGroups"
    /\ Cardinality(DOMAIN tasks) = 2

\* The number of points leaf l's offset table accounts for is the number its
\* attribute set holds.
Paired(l) == Last(tree[l].offsets) = ArraySize(tree[l].attributeSet)

C12_AllocateThenSwap ==
    \A t \in DOMAIN tasks :
        tasks[t].pc \in {"alloc", "copy", "replace", "failed"} =>
            tree[tasks[t].leaf] = tree0[tasks[t].leaf]

\* The call makes the point at index i of leaf l one to delete.
Deleted0(l, i) == Requested # {} /\ MemberOfRequested(l, i) = ~invert

\* The call has thrown: a body's allocation failed at a leaf that had points
\* to delete and points to keep.
C12_Witness ==
    /\ pc = "threw"
    /\ \E t \in DOMAIN tasks :
        /\ tasks[t].pc = "failed"
        /\ \E i \in Indices0(tasks[t].leaf) : Deleted0(tasks[t].leaf, i)
        /\ \E i \in Indices0(tasks[t].leaf) : ~Deleted0(tasks[t].leaf, i)

\* C13: once a body has failed the calling thread is in parallel_for or has
\* thrown out of it, and the group map is the one before the call; a call
\* that returns after parallel_for has had every body run to its end.
C13_FailureAborts ==
    /\ (\E t \in DOMAIN tasks : tasks[t].pc = "failed") =>
        /\ pc \in {"running", "threw"}
        /\ descriptor = descriptor0
    /\ pc = "done" => \A t \in DOMAIN tasks : tasks[t].pc = "finished"

\* A non-inverted call has thrown after another body had changed its leaf,
\* and the requested groups are still declared.
C13_Witness ==
    /\ pc = "threw" /\ ~invert
    /\ Requested # {}
    /\ tree # tree0
    /\ \E t \in DOMAIN tasks : tasks[t].pc = "finished"

\* The indices of the points leaf l held before the call that the call
\* keeps, in ascending order.
KeptIndices0(l) ==
    SelectSeq([k \in 1..Len(Ids(tree0[l])) |-> k - 1],
              LAMBDA i : ~Deleted0(l, i))

\* C14: when the call has returned, a leaf that keeps a point has the arrays
\* it had, each as long as the number of kept points, and the k-th kept
\* point has in every array, group arrays included, the value it had.
C14_ColumnAlignment ==
    pc = "done" =>
        \A l \in DOMAIN tree0 :
            LET kept == KeptIndices0(l)
                new == tree[l].attributeSet
                old == tree0[l].attributeSet
            IN  Len(kept) > 0 =>
                    /\ DOMAIN new = DOMAIN old
                    /\ \A c \in DOMAIN old :
                        /\ Len(new[c]) = Len(kept)
                        /\ \A k \in 1..Len(kept) :
                            new[c][k] = Get(old[c], kept[k])

\* An inverted call has returned: a leaf lost a point, and each point it
\* kept is in a requested group and one of them in a group not requested.
C14_Witness ==
    /\ pc = "done" /\ invert
    /\ \E l \in DOMAIN tree0 :
        /\ 0 < Len(Ids(tree[l]))
        /\ Len(Ids(tree[l])) < Len(Ids(tree0[l]))
        /\ \A k \in 1..Len(Ids(tree[l])) :
            \E g \in Requested : tree[l].attributeSet[g][k] = 1
        /\ \E g \in descriptor0 \ Requested :
            \E k \in 1..Len(Ids(tree[l])) : tree[l].attributeSet[g][k] = 1

\* The bodies whose range holds leaf l.
Owners(l) == {t \in DOMAIN tasks : tasks[t].lo <= l /\ l <= tasks[t].hi}

\* C15: every leaf is in the range of exactly one body; a step that changes
\* a leaf is a step of the body that owns the leaf and is at it, and changes
\* no other body; while bodies run, the group list and invert do not change;
\* and whatever the split into ranges and the order of the bodies' steps,
\* the tree and group map of a returned call are the ones that taking the
\* leaves one after another gives.
C15_RegionIsolation ==
    /\ [](tasks # <<>> =>
            \A l \in DOMAIN tree : Cardinality(Owners(l)) = 1)
    /\ [](pc = "done" =>
            Final = DeleteFromGroupsResult(tree0, descriptor0,
                                           Existing(groups), invert))
    /\ [][\A l \in DOMAIN tree :
            tree'[l] # tree[l] =>
                \E t \in Owners(l) :
                    /\ tasks[t].leaf = l
                    /\ tasks'[t] # tasks[t]
                    /\ \A u \in DOMAIN tasks \ {t} : tasks'[u] = tasks[u]]_vars
    /\ [][pc = "running" =>
            /\ availableGroups' = availableGroups
            /\ invert' = invert
            /\ groups' = groups]_vars

\* The call has returned after two bodies, one leaf each, each of which
\* changed its leaf.
C15_Witness ==
    /\ pc = "done"
    /\ Cardinality(DOMAIN tasks) = 2
    /\ \A l \in DOMAIN tree0 : tree[l] # tree0[l]

\* The call deletes no point of leaf l.
Unaffected(l) == \A i \in Indices0(l) : ~Deleted0(l, i)

\* C18: a leaf without points is passed over (no body clears it, builds a
\* set for it or swaps), and a leaf none of whose points the call deletes
\* holds in every state the attribute arrays and the offset table it held
\* before the call, also after it has been rebuilt.
C18_UnaffectedLeaves ==
    \A l \in DOMAIN tree0 :
        /\ Indices0(l) = {} =>
            \A t \in DOMAIN tasks :
                tasks[t].leaf = l =>
                    tasks[t].pc \in {"ready", "leaf", "finished", "cancelled"}
        /\ Unaffected(l) => tree[l] = tree0[l]

\* A body has put a rebuilt attribute set into a leaf whose points are all
\* kept, in a tree whose other leaf has no point.
C18_Witness ==
    /\ Requested # {}
    /\ \E l \in DOMAIN tree0 : Indices0(l) = {}
    /\ \E t \in DOMAIN tasks :
        /\ tasks[t].pc = "setOffsets"
        /\ Indices0(tasks[t].leaf) # {}
        /\ Unaffected(tasks[t].leaf)

\* The slots of a new attribute set that hold a point: the value array
\* starts at PointId's default, which no point has.
Written(newAttributeSet) ==
    {k \in 1..ArraySize(newAttributeSet) : newAttributeSet[ValueColumn][k] # 0}

\* C19: in the copy loop attributeIndex is at most newSize and slots
\* 1..attributeIndex of the new set are the written ones; a step that writes
\* finds attributeIndex below newSize, writes the one slot attributeIndex,
\* which was unwritten, and adds one to attributeIndex; no step of the loop
\* lowers it; and after the last voxel attributeIndex is newSize, the new
\* set's length, with every slot written.
C19_CountCopyAgree ==
    /\ [](\A t \in DOMAIN tasks :
            LET local == tasks[t].local
            IN  /\ tasks[t].pc = "copy" =>
                    /\ local.attributeIndex <= local.newSize
                    /\ ArraySize(local.newAttributeSet) = local.newSize
                    /\ Written(local.newAttributeSet) = 1..local.attributeIndex
                /\ tasks[t].pc \in {"replace", "setOffsets"} =>
                    /\ local.attributeIndex = local.newSize
                    /\ ArraySize(local.newAttributeSet) = local.newSize
                    /\ Written(local.newAttributeSet) = 1..local.newSize)
    /\ [][\A t \in DOMAIN tasks :
            tasks[t].pc = "copy" =>
                LET before == tasks[t].local
                    after == tasks'[t].local
                IN  /\ after.attributeIndex >= before.attributeIndex
                    /\ after.newAttributeSet # before.newAttributeSet =>
                        /\ before.attributeIndex < before.newSize
                        /\ after.attributeIndex = before.attributeIndex + 1
                        /\ Written(after.newAttributeSet)
                            = Written(before.newAttributeSet)
                                \cup {after.attributeIndex}
                        /\ after.attributeIndex \notin Written(before.newAttributeSet)]_vars

\* A body has left the copy loop of a leaf of three points having written
\* two.
C19_Witness ==
    \E t \in DOMAIN tasks :
        /\ tasks[t].pc = "replace"
        /\ tasks[t].local.attributeIndex = 2
        /\ Len(Ids(tree[tasks[t].leaf])) = 3

\* The call has ended: it has returned or thrown.
Ended == pc \in {"done", "threw"}

\* C16: under fair scheduling every call ends, by returning or by throwing
\* what a body threw; until then a body that has not ended can take a step
\* whatever the other bodies do, and the calling thread can take one unless
\* it is in parallel_for with a body that has not ended; a returned
\* non-inverted call that ran bodies has dropped the groups after them.
C16_Termination ==
    /\ [](\A t \in DOMAIN tasks :
            (pc = "running" /\ tasks[t].pc \notin Terminal) => ENABLED TaskStep(t))
    /\ [](~Ended /\ (pc = "running" =>
                        \A t \in DOMAIN tasks : tasks[t].pc \in Terminal)
            => ENABLED CallerStep)
    /\ <>Ended
    /\ [][pc' = "done" /\ pc # "done" /\ ~invert /\ tasks # <<>> =>
            pc = "dropGroups"]_vars

\* The call has thrown with one body failed after the other had finished
\* its leaf.
C16_Witness ==
    /\ pc = "threw"
    /\ \E t \in DOMAIN tasks : tasks[t].pc = "failed"
    /\ \E t \in DOMAIN tasks : tasks[t].pc = "finished"
    /\ \A l \in DOMAIN tree0 : Indices0(l) # {}

\* A second call has returned.
SecondDone == pc = "done" /\ "after" \in DOMAIN call

\* C17 as stated: a second call with the same list and the same invert
\* leaves tree and group map as the first left them, and a non-inverted call
\* after an inverted one leaves no point in any leaf.
C17_IdempotentAsStated ==
    SecondDone =>
        /\ call.after = invert => tree = tree0 /\ descriptor = descriptor0
        /\ (call.after /\ ~invert) =>
            \A l \in DOMAIN tree : Len(Ids(tree[l])) = 0

\* C17: a second call with the same list and the same invert leaves tree
\* and group map as the first left them.  A non-inverted call after an
\* inverted one with the same list leaves no point in any leaf, and drops
\* the requested groups, if some requested group is declared; if none is,
\* both calls return early and it too leaves tree and group map as they
\* were.
C17_Idempotent ==
    SecondDone =>
        /\ call.after = invert => tree = tree0 /\ descriptor = descriptor0
        /\ (call.after /\ ~invert) =>
            IF Requested # {}
            THEN /\ \A l \in DOMAIN tree :
                    /\ Len(Ids(tree[l])) = 0
                    /\ Last(tree[l].offsets) = 0
                 /\ descriptor = descriptor0 \ Requested
            ELSE tree = tree0 /\ descriptor = descriptor0

\* A non-inverted call has returned after an inverted one that had left
\* points in the tree, and has left none.
C17_Witness ==
    /\ SecondDone
    /\ call.after /\ ~invert
    /\ Requested # {}
    /\ \E l \in DOMAIN tree0 : Len(Ids(tree0[l])) > 0
    /\ \A l \in DOMAIN tree : Len(Ids(tree[l])) = 0

====
